---- MODULE Spec2Model ----
(***************************************************************************)
(* State-machine model of the order-book aggregation hook (useOrderbook),  *)
(* its three venue adapters (binance, okx, bybit) and the pressure-zone    *)
(* detector.                                                               *)
(*                                                                         *)
(* Units.  Prices are kept in half units (price 199 stands for 99.5), so   *)
(* that Math.round and the mean-price comparisons are exact on integers.   *)
(* Quantities are whole numbers.  Thresholds are kept in tenths            *)
(* (threshold 16 stands for 1.6).  Times are milliseconds.                 *)
(***************************************************************************)
EXTENDS Integers, Sequences, FiniteSets, TLC

\* ------------------------------------------------------------------------
\* Program constants
\* ------------------------------------------------------------------------

\* lib/types.ts: VenueId values that have an entry in API_FUNCTIONS.
Venues == {"binance", "okx", "bybit"}

TimeRangeIds == {"1m", "5m", "15m", "1h"}

TIME_RANGES ==
  [tr \in TimeRangeIds |->
     CASE tr = "1m"  -> 60 * 1000
       [] tr = "5m"  -> 5 * 60 * 1000
       [] tr = "15m" -> 15 * 60 * 1000
       [] tr = "1h"  -> 60 * 60 * 1000]

\* Number of price buckets scanned on each side of a seed bucket.
ScanRadius == 5

\* Math.min() and Math.max() of an empty list are +Infinity and -Infinity;
\* they are represented by two integers beyond every price and quantity.
Infinity == 1000000000

NegInfinity == -1000000000

\* parseFloat of a string that is not a number gives NaN; it is represented
\* by an integer that no price takes.  No arithmetic is done on it.
NaN == -1

\* ------------------------------------------------------------------------
\* Arithmetic helpers
\* ------------------------------------------------------------------------

\* Math.round on a non-negative price given in half units: x.5 rounds up.
Round(p) == (p + 1) \div 2

RECURSIVE SumPrice(_)
SumPrice(s) == IF s = <<>> THEN 0 ELSE Head(s).price + SumPrice(Tail(s))

RECURSIVE SumQuantity(_)
SumQuantity(s) == IF s = <<>> THEN 0 ELSE Head(s).quantity + SumQuantity(Tail(s))

MinOf(S) == IF S = {} THEN Infinity ELSE CHOOSE x \in S : \A y \in S : x <= y

MaxOf(S) == IF S = {} THEN NegInfinity ELSE CHOOSE x \in S : \A y \in S : x >= y

Range(s) == {s[i] : i \in DOMAIN s}

\* Array.prototype.sort with a comparator that orders by an integer key,
\* ascending; the sort is stable.  keys[i] is the key of s[i].
StableSort(s, keys) ==
  LET n == Len(s)
      pos(i) == 1 + Cardinality({j \in 1..n :
                       keys[j] < keys[i] \/ (keys[j] = keys[i] /\ j < i)})
  IN  [k \in 1..n |-> s[CHOOSE i \in 1..n : pos(i) = k]]

\* The ascending sequence of the elements of a finite set of integers.
RECURSIVE Ascending(_)
Ascending(S) ==
  IF S = {} THEN <<>>
  ELSE LET m == CHOOSE x \in S : \A y \in S : x <= y
       IN  <<m>> \o Ascending(S \ {m})

\* ------------------------------------------------------------------------
\* Pressure-zone detector (lib/binance.ts, lib/okx.ts, lib/bybit.ts: the
\* three copies are the same algorithm)
\* ------------------------------------------------------------------------

\* priceGroups[b]: the entries whose rounded price is b, in input order.
PriceGroup(entries, b) == SelectSeq(entries, LAMBDA e : Round(e.price) = b)

\* if (priceGroups[p])
HasGroup(entries, b) == \E i \in DOMAIN entries : Round(entries[i].price) = b

\* A bucket seeding a zone from half the threshold on.
SeedsAtHalf(volume, threshold) == 20 * volume >= threshold

\* totalVolume >= threshold, threshold in tenths.
MeetsThreshold(volume, threshold) == 10 * volume >= threshold

\* pVolume >= threshold * 0.5, threshold in tenths.
MeetsHalfThreshold(volume, threshold) == 20 * volume >= threshold

\* The lower scan extending the zone without adding the absorbed bucket's
\* volume to zoneVolume.
RECURSIVE ScanLowerKeepsVolume(_, _, _, _, _)
ScanLowerKeepsVolume(entries, threshold, p, last, z) ==
  IF p < last THEN z
  ELSE IF HasGroup(entries, p)
       THEN LET pVolume == SumQuantity(PriceGroup(entries, p))
            IN  IF MeetsHalfThreshold(pVolume, threshold)
                THEN ScanLowerKeepsVolume(entries, threshold, p - 1, last,
                       [z EXCEPT !.minPrice = p,
                                 !.entries = @ \o PriceGroup(entries, p),
                                 !.claimed = @ \cup {p}])
                ELSE z
       ELSE ScanLowerKeepsVolume(entries, threshold, p - 1, last, z)

\* for (let p = price - 1; p >= price - 5; p--): a bucket without entries
\* is passed over, a bucket below half the threshold ends the scan.
RECURSIVE ScanLower(_, _, _, _, _)
ScanLower(entries, threshold, p, last, z) ==
  IF p < last THEN z
  ELSE IF HasGroup(entries, p)
       THEN LET pVolume == SumQuantity(PriceGroup(entries, p))
            IN  IF MeetsHalfThreshold(pVolume, threshold)
                THEN ScanLower(entries, threshold, p - 1, last,
                       [z EXCEPT !.minPrice = p,
                                 !.totalVolume = @ + pVolume,
                                 !.entries = @ \o PriceGroup(entries, p),
                                 !.claimed = @ \cup {p}])
                ELSE z
       ELSE ScanLower(entries, threshold, p - 1, last, z)

\* for (let p = price + 1; p <= price + 5; p++)
RECURSIVE ScanHigher(_, _, _, _, _)
ScanHigher(entries, threshold, p, last, z) ==
  IF p > last THEN z
  ELSE IF HasGroup(entries, p)
       THEN LET pVolume == SumQuantity(PriceGroup(entries, p))
            IN  IF MeetsHalfThreshold(pVolume, threshold)
                THEN ScanHigher(entries, threshold, p + 1, last,
                       [z EXCEPT !.maxPrice = p,
                                 !.totalVolume = @ + pVolume,
                                 !.entries = @ \o PriceGroup(entries, p),
                                 !.claimed = @ \cup {p}])
                ELSE z
       ELSE ScanHigher(entries, threshold, p + 1, last, z)

\* A zone whose first entry is at the mean price labelled a bid.
ZoneTypeInclusive(zoneEntries, entries) ==
  IF zoneEntries[1].price * Len(entries) <= SumPrice(entries) THEN "bid" ELSE "ask"

\* zoneEntries[0].price < mean price of all entries of the invocation.
ZoneType(zoneEntries, entries) ==
  IF zoneEntries[1].price * Len(entries) < SumPrice(entries) THEN "bid" ELSE "ask"

PressureScoreNoUnit(zoneVolume, minPrice, maxPrice) ==
  zoneVolume * (maxPrice - minPrice)

PressureScore(zoneVolume, minPrice, maxPrice) ==
  zoneVolume * (maxPrice - minPrice + 1)

\* The scans reaching one bucket further than ScanRadius on each side.
GrowZoneWide(entries, threshold, price) ==
  LET group == PriceGroup(entries, price)
      seed  == [minPrice |-> price, maxPrice |-> price,
                totalVolume |-> SumQuantity(group),
                entries |-> group, claimed |-> {}]
      lower == ScanLower(entries, threshold, price - 1, price - ScanRadius - 1, seed)
  IN  ScanHigher(entries, threshold, price + 1, price + ScanRadius + 1, lower)

\* The zone seeded at bucket `price`, with the buckets it claimed.
GrowZone(entries, threshold, price) ==
  LET group == PriceGroup(entries, price)
      seed  == [minPrice |-> price, maxPrice |-> price,
                totalVolume |-> SumQuantity(group),
                entries |-> group, claimed |-> {}]
      lower == ScanLower(entries, threshold, price - 1, price - ScanRadius, seed)
  IN  ScanHigher(entries, threshold, price + 1, price + ScanRadius, lower)

MakeZone(entries, g) ==
  [minPrice      |-> g.minPrice,
   maxPrice      |-> g.maxPrice,
   totalVolume   |-> g.totalVolume,
   pressureScore |-> PressureScore(g.totalVolume, g.minPrice, g.maxPrice),
   type          |-> ZoneType(g.entries, entries),
   entries       |-> g.entries]

\* Object.keys(priceGroups).forEach: buckets in ascending order, skipping
\* the buckets already in processedPrices.
RECURSIVE VisitBuckets(_, _, _, _, _)
VisitBuckets(entries, threshold, keys, processedPrices, zones) ==
  IF keys = <<>> THEN zones
  ELSE LET price == Head(keys)
       IN  IF price \in processedPrices
           THEN VisitBuckets(entries, threshold, Tail(keys), processedPrices, zones)
           ELSE IF MeetsThreshold(SumQuantity(PriceGroup(entries, price)), threshold)
                THEN LET g == GrowZone(entries, threshold, price)
                     IN  VisitBuckets(entries, threshold, Tail(keys),
                           processedPrices \cup g.claimed \cup {price},
                           Append(zones, MakeZone(entries, g)))
                ELSE VisitBuckets(entries, threshold, Tail(keys),
                                  processedPrices, zones)

\* The zones sorted with the comparator's operands exchanged.
SortZonesAscending(zones) ==
  StableSort(zones, [i \in DOMAIN zones |-> zones[i].pressureScore])

\* pressureZones.sort((a, b) => b.pressureScore - a.pressureScore)
SortZones(zones) ==
  StableSort(zones, [i \in DOMAIN zones |-> 0 - zones[i].pressureScore])

DetectPressureZones(entries, threshold) ==
  LET keys  == Ascending({Round(entries[i].price) : i \in DOMAIN entries})
      zones == VisitBuckets(entries, threshold, keys, {}, <<>>)
  IN  [pressureZones |-> SortZones(zones),
       maxQuantity   |-> MaxOf({0} \cup {entries[i].quantity : i \in DOMAIN entries})]

\* ------------------------------------------------------------------------
\* Aggregation pass (hooks/useOrderbook.ts: processOrderbookData)
\* ------------------------------------------------------------------------

\* TIME_RANGES[timeRange] || TIME_RANGES['1m']
TimeRangeMs(timeRange) ==
  IF timeRange \in TimeRangeIds THEN TIME_RANGES[timeRange] ELSE TIME_RANGES["1m"]

InWindowInclusive(entry, nowMs, timeRange) ==
  nowMs - entry.timestamp <= TimeRangeMs(timeRange)

\* now - entry.timestamp < timeRangeMs
InWindow(entry, nowMs, timeRange) ==
  nowMs - entry.timestamp < TimeRangeMs(timeRange)

FilterEntries(entries, nowMs, timeRange) ==
  SelectSeq(entries, LAMBDA e : InWindow(e, nowMs, timeRange))

\* Keys of venueEntries, in the order the venues first appear.
RECURSIVE VenueKeys(_, _)
VenueKeys(entries, seen) ==
  IF entries = <<>> THEN <<>>
  ELSE IF Head(entries).venue \in seen
       THEN VenueKeys(Tail(entries), seen)
       ELSE <<Head(entries).venue>>
              \o VenueKeys(Tail(entries), seen \cup {Head(entries).venue})

\* The detector and the mid price taken over the entries of all venues.
VenueEntriesMerged(filteredEntries, venue) == filteredEntries

VenueEntries(filteredEntries, venue) ==
  SelectSeq(filteredEntries, LAMBDA e : e.venue = venue)

\* An entry at its venue's mean price taken for a bid.
IsBidInclusive(entry, filteredEntries) ==
  LET group == VenueEntries(filteredEntries, entry.venue)
  IN  entry.price * Len(group) <= SumPrice(group)

\* entry.price < (venueMidPrices[entry.venue] || global mean): the venue's
\* mean is replaced by the global mean when it is falsy (zero).
IsBid(entry, filteredEntries) ==
  LET group == VenueEntries(filteredEntries, entry.venue)
  IN  IF SumPrice(group) # 0
      THEN entry.price * Len(group) < SumPrice(group)
      ELSE entry.price * Len(filteredEntries) < SumPrice(filteredEntries)

SortBidsAscending(bids) == StableSort(bids, [i \in DOMAIN bids |-> bids[i].price])

SortBids(bids) == StableSort(bids, [i \in DOMAIN bids |-> 0 - bids[i].price])

SortAsks(asks) == StableSort(asks, [i \in DOMAIN asks |-> asks[i].price])

\* Half of the largest quantity taken for the threshold.
ZoneThresholdHalf(newMaxQuantity) == 5 * newMaxQuantity

\* newMaxQuantity * 0.2, in tenths.
ZoneThreshold(newMaxQuantity) == 2 * newMaxQuantity

RECURSIVE ZonesOfVenues(_, _, _)
ZonesOfVenues(filteredEntries, venues, threshold) ==
  IF venues = <<>> THEN <<>>
  ELSE LET group == VenueEntries(filteredEntries, Head(venues))
           found == IF Len(group) > 0 /\ Head(venues) \in Venues
                    THEN DetectPressureZones(group, threshold).pressureZones
                    ELSE <<>>
       IN  found \o ZonesOfVenues(filteredEntries, Tail(venues), threshold)

\* The values processOrderbookData hands to the seven state setters, for a
\* non-empty `entries`.
ComputeView(entries, nowMs, timeRange) ==
  LET filteredEntries == FilterEntries(entries, nowMs, timeRange)
      newBids == SortBids(SelectSeq(filteredEntries,
                            LAMBDA e : IsBid(e, filteredEntries)))
      newAsks == SortAsks(SelectSeq(filteredEntries,
                            LAMBDA e : ~IsBid(e, filteredEntries)))
      both    == newBids \o newAsks
      newMaxQuantity == MaxOf({both[i].quantity : i \in DOMAIN both})
      zones   == ZonesOfVenues(filteredEntries, VenueKeys(filteredEntries, {}),
                               ZoneThreshold(newMaxQuantity))
  IN  [bids          |-> newBids,
       asks          |-> newAsks,
       pressureZones |-> SortZones(zones),
       minPrice      |-> MinOf({both[i].price : i \in DOMAIN both}),
       maxPrice      |-> MaxOf({both[i].price : i \in DOMAIN both}),
       maxQuantity   |-> newMaxQuantity,
       lastUpdated   |-> nowMs]

\* ------------------------------------------------------------------------
\* Venue adapters (lib/binance.ts, lib/okx.ts, lib/bybit.ts)
\* ------------------------------------------------------------------------

\* A price level of a venue payload: the values parseFloat gives for the
\* two decimal strings of the pair.
Level(p, q) == [price |-> p, quantity |-> q]

RECURSIVE LevelsToEntries(_, _, _, _)
LevelsToEntries(levels, venue, timestamp, dropZero) ==
  IF levels = <<>> THEN <<>>
  ELSE LET l    == Head(levels)
           rest == LevelsToEntries(Tail(levels), venue, timestamp, dropZero)
       IN  IF dropZero /\ ~(l.quantity > 0)
           THEN rest
           ELSE <<[price |-> l.price, quantity |-> l.quantity,
                   venue |-> venue, timestamp |-> timestamp]>> \o rest

\* ws.onmessage: if (numQuantity > 0) entries.push(...)
StreamLevels(levels, venue, timestamp) ==
  LevelsToEntries(levels, venue, timestamp, TRUE)

\* The entries ws.onmessage decodes from a depth message: bids, then asks,
\* stamped with the message's own timestamp.
DecodeStream(venue, msg) ==
  StreamLevels(msg.b, venue, msg.ts) \o StreamLevels(msg.a, venue, msg.ts)

\* Whether ws.onmessage calls onMessage.  A message that is not a depth
\* message is skipped (okx, bybit) or throws inside the try block
\* (binance); okx and bybit also skip a message that decodes to no entry.
StreamDelivers(venue, msg) ==
  /\ msg.kind = "depth"
  /\ venue = "binance" \/ Len(DecodeStream(venue, msg)) > 0

\* fetchOrderbookSnapshot: every level of the response becomes an entry; a
\* failed request gives the empty list.  binance and bybit stamp the
\* entries with Date.now(), okx with the response's ts.
DecodeSnapshot(venue, resp, nowMs) ==
  IF ~resp.ok THEN <<>>
  ELSE LET timestamp == IF venue = "okx" THEN resp.ts ELSE nowMs
       IN  LevelsToEntries(resp.bids, venue, timestamp, FALSE)
             \o LevelsToEntries(resp.asks, venue, timestamp, FALSE)

\* ------------------------------------------------------------------------
\* Bounds of the model
\* ------------------------------------------------------------------------

\* Stream handles created in one behaviour.
MaxSockets == 2

\* initializeWebSockets invocations in flight at once.
MaxInits == 2

\* Entries held by dataBufferRef.
MaxBuffer == 2

\* Advances of the clock in one behaviour.
MaxClock == 1

\* Venues selected at once.
MaxSelected == 2

\* Actions of the consumer (venue, window and mode changes, reconnect,
\* unmount) in one behaviour.
MaxUserActions == 3

\* ------------------------------------------------------------------------
\* Session controller (hooks/useOrderbook.ts)
\* ------------------------------------------------------------------------

VARIABLES
  selectedVenues,  \* prop: the venue list of the latest render
  timeRange,       \* prop
  realTimeMode,    \* prop
  mounted,         \* the component using the hook is mounted
  status,          \* useState: 'connecting' | 'open' | 'closed' | 'error'
  error,           \* useState: message or null
  view,            \* the seven useState cells of the published view
  wsRefs,          \* useRef: venue -> stream handle (0: no property)
  sockets,         \* every stream handle created so far, by id
  dataBufferRef,   \* useRef: the inbound buffer
  inits,           \* initializeWebSockets invocations awaiting a snapshot
  interval,        \* the batched-mode timer and what its callback closed over
  now,             \* Date.now()
  userActions,     \* consumer actions so far
  lastPass,        \* arguments of the latest processOrderbookData call
  showPressureZones, \* state of Home, handed to the control panel and the scene
  closedEarly      \* handles closed while connecting, their error event pending

vars == <<selectedVenues, timeRange, realTimeMode, mounted, status, error,
          view, wsRefs, sockets, dataBufferRef, inits,
          interval, now, userActions, lastPass, showPressureZones,
          closedEarly>>

Null == "null"

ViewFields == <<"bids", "asks", "pressureZones", "minPrice", "maxPrice",
                "maxQuantity", "lastUpdated">>

NoInterval == [active |-> FALSE, timeRange |-> "1m"]

NoPass == [entries |-> <<>>, now |-> 0, timeRange |-> "1m",
           realTimeMode |-> FALSE]

\* pages/index.tsx: the props of the first render.
InitialVenues == <<"binance">>

InitialTimeRange == "1m"

InitialRealTimeMode == TRUE

InitialShowPressureZones == TRUE

StartMs == TIME_RANGES["1h"]

\* useState initial values.
InitialView(nowMs) ==
  [bids |-> <<>>, asks |-> <<>>, pressureZones |-> <<>>, minPrice |-> 0,
   maxPrice |-> 0, maxQuantity |-> 0, lastUpdated |-> nowMs]

\* The venues and windows the control panel offers: availableVenues and
\* timeRanges.
SelectableVenues == Venues

SelectableTimeRanges == TimeRangeIds

\* --- environment inputs -------------------------------------------------

\* Depth messages a venue may send at time nowMs, and a message that is
\* not a depth message.
StreamMessages(nowMs) ==
  {[kind |-> "depth", ts |-> t, b |-> ba[1], a |-> ba[2]] :
     t  \in {nowMs},
     ba \in {<< <<Level(198, 2)>>, <<Level(203, 0)>> >>,
             << <<Level(198, 0)>>, <<>> >>}}
  \cup {[kind |-> "other", ts |-> nowMs, b |-> <<>>, a |-> <<>>]}

\* Messages that are not well-formed depth messages: text that is not JSON
\* or lacks the depth fields, and a depth message with a level whose price
\* is not a number.
MalformedMessages(nowMs) ==
  {[kind |-> "other", ts |-> nowMs, b |-> <<>>, a |-> <<>>],
   [kind |-> "depth", ts |-> nowMs, b |-> <<Level(NaN, 1)>>, a |-> <<>>]}

\* Responses of a venue's depth endpoint at time nowMs.
SnapshotResponses(nowMs) ==
  {[ok |-> FALSE, ts |-> nowMs, bids |-> <<>>, asks |-> <<>>],
   [ok |-> TRUE,  ts |-> nowMs, bids |-> <<>>, asks |-> <<>>],
   [ok |-> TRUE,  ts |-> nowMs, bids |-> <<Level(198, 3)>>,
                                asks |-> <<Level(203, 0)>>]}

\* --- React state updates ------------------------------------------------

\* setBids(...); setAsks(...); ... setLastUpdated(now): the setter calls of
\* one pass, in program order.
SetterCalls(newView) ==
  [i \in DOMAIN ViewFields |->
     [field |-> ViewFields[i], value |-> newView[ViewFields[i]]]]

RECURSIVE ApplyUpdates(_, _)
ApplyUpdates(cells, updates) ==
  IF updates = <<>> THEN cells
  ELSE ApplyUpdates([cells EXCEPT ![Head(updates).field] = Head(updates).value],
                    Tail(updates))

\* --- processOrderbookData ----------------------------------------------

\* The state cells once processOrderbookData(entries), run at `now` by a
\* closure holding timeRange tr, has returned: unchanged on an empty list
\* (the early return), else with the seven setter calls applied.  The
\* calls are made outside React event handlers, and whether React renders
\* between them is decided by the root the application is mounted on,
\* which is no part of the hook: the model has the cells only at the end
\* of the synchronous block.
PassCells(entries, tr) ==
  IF Len(entries) = 0 THEN view
  ELSE ApplyUpdates(view, SetterCalls(ComputeView(entries, now, tr)))

\* if (realTimeMode) dataBufferRef.current = []
BufferAfterPass(entries, buffer, rt) ==
  IF Len(entries) > 0 /\ rt THEN <<>> ELSE buffer

\* processOrderbookData(entries) called by a closure holding (tr, rt): its
\* effect on the state cells.  Setter calls made after the unmount are
\* discarded by React.
ProcessOrderbookData(entries, tr, rt) ==
  /\ lastPass' = IF Len(entries) = 0 THEN lastPass
                 ELSE [entries |-> entries, now |-> now,
                       timeRange |-> tr, realTimeMode |-> rt]
  /\ view' = IF mounted THEN PassCells(entries, tr) ELSE view

\* setStatus / setError; discarded by React after the unmount.
SetStatus(st, err) ==
  /\ status' = IF mounted THEN st ELSE status
  /\ error'  = IF mounted THEN err ELSE error

\* --- handles ------------------------------------------------------------

\* Object.values(wsRefs.current).forEach(ws => { if (ws) ws.close() }), and
\* the end of the session the handles and the pending initializations
\* were made for.
CloseNothing(socks) == socks

CloseStored(socks) ==
  [i \in DOMAIN socks |->
     [socks[i] EXCEPT !.open = IF wsRefs[socks[i].venue] = i THEN FALSE ELSE @]]

EndSession(pending) ==
  [i \in DOMAIN pending |-> [pending[i] EXCEPT !.stale = TRUE]]

\* A call of initializeWebSockets by a render with props (venues, tr, rt),
\* run up to its first await.
NewInit(venues, tr, rt) ==
  [venues |-> venues, k |-> 1, initialData |-> <<>>, timeRange |-> tr,
   realTimeMode |-> rt, stale |-> FALSE]

FailedFetchMessage == "Failed to fetch initial orderbook data"

SocketErrorMessage == "WebSocket connection error"

\* A stream opened for the first selected venue only.
OpenSocketsOnce(venues, init, acc) ==
  IF venues = <<>> THEN acc
  ELSE [sockets |-> Append(acc.sockets,
                      [venue |-> Head(venues), open |-> TRUE,
                       timeRange |-> init.timeRange,
                       realTimeMode |-> init.realTimeMode]),
        wsRefs  |-> [acc.wsRefs EXCEPT ![Head(venues)] = Len(acc.sockets) + 1]]

\* selectedVenues.forEach(venue => { ws = createWebSocket(...);
\* wsRefs.current[venue] = ws })
RECURSIVE OpenSockets(_, _, _)
OpenSockets(venues, init, acc) ==
  IF venues = <<>> THEN acc
  ELSE LET id == Len(acc.sockets) + 1
       IN  OpenSockets(Tail(venues), init,
             [sockets |-> Append(acc.sockets,
                            [venue |-> Head(venues), open |-> TRUE,
                             timeRange |-> init.timeRange,
                             realTimeMode |-> init.realTimeMode]),
              wsRefs  |-> [acc.wsRefs EXCEPT ![Head(venues)] = id]])

RemoveAt(s, i) == SubSeq(s, 1, i - 1) \o SubSeq(s, i + 1, Len(s))

\* --- initializeWebSockets ----------------------------------------------

\* initializeWebSockets() called by a render with props (venues, tr, rt),
\* after setStatus(st)/setError(err) if the caller made them: the call runs
\* to its first await; with no venue to fetch it runs to its end.
BeginInit(venues, tr, rt, pending, st, err) ==
  IF venues = <<>>
  THEN /\ inits' = pending
       /\ SetStatus("error", FailedFetchMessage)
  ELSE /\ Len(pending) < MaxInits
       /\ inits' = Append(pending, NewInit(venues, tr, rt))
       /\ SetStatus(st, err)

\* A venue's snapshot replacing what the earlier venues returned.
AccumulateLast(initialData, venueData) == venueData

\* initialData = [...initialData, ...venueData]
Accumulate(initialData, venueData) == initialData \o venueData

\* The snapshot fetch awaited by the i-th pending initialization resolves
\* with resp; the function runs on to its next await or to its end.
FetchResolve(i, resp) ==
  /\ i \in DOMAIN inits
  /\ resp \in SnapshotResponses(now)
  /\ LET init  == inits[i]
         venue == init.venues[init.k]
         data  == Accumulate(init.initialData, DecodeSnapshot(venue, resp, now))
     IN  IF init.k < Len(init.venues)
         THEN /\ inits' = [inits EXCEPT ![i].k = @ + 1, ![i].initialData = data]
              /\ UNCHANGED <<selectedVenues, timeRange, realTimeMode, mounted, showPressureZones, closedEarly,
                             status, error, view, wsRefs,
                             sockets, dataBufferRef, interval, now, userActions,
                             lastPass>>
         ELSE /\ inits' = RemoveAt(inits, i)
              /\ IF Len(data) > 0
                 THEN /\ Len(sockets) + Len(init.venues) <= MaxSockets
                      /\ ProcessOrderbookData(data, init.timeRange,
                                              init.realTimeMode)
                      /\ dataBufferRef' =
                           BufferAfterPass(data, dataBufferRef, init.realTimeMode)
                      /\ LET opened == OpenSockets(init.venues, init,
                                         [sockets |-> sockets, wsRefs |-> wsRefs])
                         IN  /\ sockets' = opened.sockets
                             /\ wsRefs'  = opened.wsRefs
                      /\ SetStatus("open", error)
                 ELSE /\ SetStatus("error", FailedFetchMessage)
                      /\ UNCHANGED <<view, wsRefs, sockets,
                                     dataBufferRef, lastPass>>
              /\ UNCHANGED <<selectedVenues, timeRange, realTimeMode, mounted, showPressureZones, closedEarly,
                             interval, now, userActions>>

\* --- stream callbacks ---------------------------------------------------

\* handleWebSocketMessage(entries), as closed over by handle h.
HandleWebSocketMessage(h, entries) ==
  IF Len(entries) > 0
  THEN LET buffer == dataBufferRef \o entries
       IN  /\ Len(buffer) <= MaxBuffer
           /\ IF sockets[h].realTimeMode
              THEN /\ ProcessOrderbookData(buffer, sockets[h].timeRange, TRUE)
                   /\ dataBufferRef' = BufferAfterPass(buffer, buffer, TRUE)
              ELSE /\ dataBufferRef' = buffer
                   /\ UNCHANGED <<view, lastPass>>
  ELSE UNCHANGED <<view, lastPass, dataBufferRef>>

\* ws.onmessage of the open handle h, called with msg.
OnMessage(h, msg) ==
  /\ h \in DOMAIN sockets
  /\ sockets[h].open
  /\ IF StreamDelivers(sockets[h].venue, msg)
     THEN HandleWebSocketMessage(h, DecodeStream(sockets[h].venue, msg))
     ELSE UNCHANGED <<view, lastPass, dataBufferRef>>
  /\ UNCHANGED <<selectedVenues, timeRange, realTimeMode, mounted,
                 showPressureZones, closedEarly, status,
                 error, wsRefs, sockets, inits, interval, now, userActions>>

\* The open handle h receives a message of its venue.
WsMessage(h, msg) ==
  /\ msg \in StreamMessages(now)
  /\ OnMessage(h, msg)

\* handleWebSocketError tearing the session down as reconnect() does.
WsErrorTearsDown(h) ==
  /\ h \in DOMAIN sockets
  /\ sockets[h].open
  /\ SetStatus("error", SocketErrorMessage)
  /\ sockets' = CloseStored([sockets EXCEPT ![h].open = FALSE])
  /\ UNCHANGED <<selectedVenues, timeRange, realTimeMode, mounted,
                 showPressureZones, closedEarly, view,
                 wsRefs, dataBufferRef, inits, interval,
                 now, userActions, lastPass>>

\* ws.onerror of handle h: handleWebSocketError.  The transport of a handle
\* that reports an error is gone.
WsError(h) ==
  /\ h \in DOMAIN sockets
  /\ sockets[h].open
  /\ SetStatus("error", SocketErrorMessage)
  /\ sockets' = [sockets EXCEPT ![h].open = FALSE]
  /\ UNCHANGED <<selectedVenues, timeRange, realTimeMode, mounted,
                 showPressureZones, closedEarly, view,
                 wsRefs, dataBufferRef, inits, interval,
                 now, userActions, lastPass>>

\* ws.onclose of handle h, closed by the venue: the callback only logs.
WsClose(h) ==
  /\ h \in DOMAIN sockets
  /\ sockets[h].open
  /\ sockets' = [sockets EXCEPT ![h].open = FALSE]
  /\ UNCHANGED <<selectedVenues, timeRange, realTimeMode, mounted,
                 showPressureZones, closedEarly, status,
                 error, view, wsRefs, dataBufferRef, inits,
                 interval, now, userActions, lastPass>>

\* --- timer --------------------------------------------------------------

\* The setInterval callback of the interval effect.
TimerTick ==
  /\ interval.active
  /\ IF Len(dataBufferRef) > 0
     THEN /\ ProcessOrderbookData(dataBufferRef, interval.timeRange, FALSE)
          /\ dataBufferRef' = <<>>
     ELSE UNCHANGED <<view, lastPass, dataBufferRef>>
  /\ UNCHANGED <<selectedVenues, timeRange, realTimeMode, mounted,
                 showPressureZones, closedEarly, status,
                 error, wsRefs, sockets, inits, interval, now, userActions>>

\* useEffect(..., [realTimeMode, timeRange]) run by a render with (rt, tr),
\* after the cleanup of the previous run.
IntervalEffect(rt, tr) ==
  IF ~rt THEN [active |-> TRUE, timeRange |-> tr] ELSE NoInterval

\* --- the consumer -------------------------------------------------------

\* components/ControlPanel.tsx: handleVenueChange.
ToggledVenues(venues, v) ==
  IF v \in Range(venues)
  THEN SelectSeq(venues, LAMBDA x : x # v)
  ELSE Append(venues, v)

\* The venue list changes: the cleanup of the init effect runs, then the
\* effect of the new render.
ToggleVenue(v) ==
  /\ mounted
  /\ userActions < MaxUserActions
  /\ userActions' = userActions + 1
  /\ v \in SelectableVenues
  /\ Len(ToggledVenues(selectedVenues, v)) <= MaxSelected
  /\ selectedVenues' = ToggledVenues(selectedVenues, v)
  /\ sockets' = CloseStored(sockets)
  /\ BeginInit(selectedVenues', timeRange, realTimeMode, EndSession(inits),
               status, error)
  /\ UNCHANGED <<timeRange, realTimeMode, mounted,
                 showPressureZones, closedEarly, view,
                 wsRefs, dataBufferRef, interval, now, lastPass>>

SetTimeRange(tr) ==
  /\ mounted
  /\ userActions < MaxUserActions
  /\ userActions' = userActions + 1
  /\ tr \in SelectableTimeRanges \ {timeRange}
  /\ timeRange' = tr
  /\ interval' = IntervalEffect(realTimeMode, tr)
  /\ UNCHANGED <<selectedVenues, realTimeMode, mounted,
                 showPressureZones, closedEarly, status, error, view,
                 wsRefs, sockets, dataBufferRef, inits, now,
                 lastPass>>

SetRealTimeMode(rt) ==
  /\ mounted
  /\ userActions < MaxUserActions
  /\ userActions' = userActions + 1
  /\ rt \in BOOLEAN \ {realTimeMode}
  /\ realTimeMode' = rt
  /\ interval' = IntervalEffect(rt, timeRange)
  /\ UNCHANGED <<selectedVenues, timeRange, mounted,
                 showPressureZones, closedEarly, status, error, view,
                 wsRefs, sockets, dataBufferRef, inits, now,
                 lastPass>>

\* reconnect(), the function returned by the latest render.
Reconnect ==
  /\ mounted
  /\ userActions < MaxUserActions
  /\ userActions' = userActions + 1
  /\ sockets' = CloseStored(sockets)
  /\ BeginInit(selectedVenues, timeRange, realTimeMode, EndSession(inits),
               "connecting", Null)
  /\ UNCHANGED <<selectedVenues, timeRange, realTimeMode, mounted,
                 showPressureZones, closedEarly, view,
                 wsRefs, dataBufferRef, interval, now,
                 lastPass>>

\* The component unmounts: the cleanups of both effects run.
Unmount ==
  /\ mounted
  /\ userActions < MaxUserActions
  /\ userActions' = userActions + 1
  /\ mounted' = FALSE
  /\ sockets' = CloseStored(sockets)
  /\ inits' = EndSession(inits)
  /\ interval' = NoInterval
  /\ UNCHANGED <<selectedVenues, timeRange, realTimeMode, showPressureZones, closedEarly,
                 status, error,
                 view, wsRefs, dataBufferRef, now, lastPass>>

\* Time passes.
Advance ==
  /\ now < StartMs + MaxClock * TIME_RANGES["1m"]
  /\ now' = now + TIME_RANGES["1m"]
  /\ UNCHANGED <<selectedVenues, timeRange, realTimeMode, mounted,
                 showPressureZones, closedEarly, status,
                 error, view, wsRefs, sockets,
                 dataBufferRef, inits, interval, userActions, lastPass>>

\* --- specification ------------------------------------------------------

\* The state after the first render and its effects: the init effect has
\* called initializeWebSockets, which awaits its first snapshot.
Init ==
  /\ selectedVenues = InitialVenues
  /\ timeRange = InitialTimeRange
  /\ realTimeMode = InitialRealTimeMode
  /\ mounted = TRUE
  /\ status = "connecting"
  /\ error = Null
  /\ now = StartMs
  /\ view = InitialView(StartMs)
  /\ wsRefs = [v \in Venues |-> 0]
  /\ sockets = <<>>
  /\ dataBufferRef = <<>>
  /\ inits = <<NewInit(InitialVenues, InitialTimeRange, InitialRealTimeMode)>>
  /\ interval = IntervalEffect(InitialRealTimeMode, InitialTimeRange)
  /\ userActions = 0
  /\ lastPass = NoPass
  /\ showPressureZones = InitialShowPressureZones
  /\ closedEarly = {}

Next ==
  \/ \E i \in 1..MaxInits : \E resp \in SnapshotResponses(now) : FetchResolve(i, resp)
  \/ \E h \in 1..MaxSockets : \E msg \in StreamMessages(now) : WsMessage(h, msg)
  \/ \E h \in 1..MaxSockets : WsError(h)
  \/ \E h \in 1..MaxSockets : WsClose(h)
  \/ TimerTick
  \/ \E v \in SelectableVenues : ToggleVenue(v)
  \/ \E tr \in SelectableTimeRanges : SetTimeRange(tr)
  \/ \E rt \in BOOLEAN : SetRealTimeMode(rt)
  \/ Reconnect
  \/ Unmount
  \/ Advance

Spec == Init /\ [][Next]_vars

\* ------------------------------------------------------------------------
\* The aggregation pass on its own: one call of processOrderbookData on an
\* arbitrary buffer, window and mode
\* ------------------------------------------------------------------------

\* Length of the buffer handed to the pass.
MaxPassLen == 2

PassEntries ==
  [price     : {198, 201},
   quantity  : {1, 8},
   venue     : {"binance", "okx"},
   timestamp : {StartMs, StartMs - TIME_RANGES["1m"], StartMs - TIME_RANGES["5m"]}]

RECURSIVE SeqsUpTo(_, _)
SeqsUpTo(S, n) ==
  IF n = 0 THEN {<<>>}
  ELSE LET shorter == SeqsUpTo(S, n - 1)
       IN  shorter \cup {Append(q, x) : q \in shorter, x \in S}

InitPass ==
  /\ selectedVenues = InitialVenues
  /\ timeRange \in TimeRangeIds
  /\ realTimeMode \in BOOLEAN
  /\ mounted = TRUE
  /\ status = "open"
  /\ error = Null
  /\ now = StartMs
  /\ view = InitialView(StartMs)
  /\ wsRefs = [v \in Venues |-> 0]
  /\ sockets = <<>>
  /\ dataBufferRef \in SeqsUpTo(PassEntries, MaxPassLen)
  /\ inits = <<>>
  /\ interval = NoInterval
  /\ userActions = 0
  /\ lastPass = NoPass
  /\ showPressureZones \in BOOLEAN
  /\ closedEarly = {}

\* processOrderbookData(dataBufferRef.current) by a closure of the current
\* render.
PassStep ==
  /\ lastPass = NoPass
  /\ ProcessOrderbookData(dataBufferRef, timeRange, realTimeMode)
  /\ dataBufferRef' = BufferAfterPass(dataBufferRef, dataBufferRef, realTimeMode)
  /\ UNCHANGED <<selectedVenues, timeRange, realTimeMode, mounted,
                 showPressureZones, closedEarly, status,
                 error, wsRefs, sockets, inits, interval, now, userActions>>

\* The "Show Pressure Zones" checkbox of the control panel:
\* setShowPressureZones(e.target.checked).  The flag is an argument of the
\* control panel and of the scene, not of useOrderbook.
SetShowPressureZones(show) ==
  /\ mounted
  /\ show \in BOOLEAN \ {showPressureZones}
  /\ showPressureZones' = show
  /\ UNCHANGED <<selectedVenues, timeRange, realTimeMode, mounted, closedEarly, status,
                 error, view, wsRefs, sockets, dataBufferRef, inits,
                 interval, now, userActions, lastPass>>

NextPass ==
  \/ PassStep
  \/ \E show \in BOOLEAN : SetShowPressureZones(show)

SpecPass == InitPass /\ [][NextPass]_vars

\* ------------------------------------------------------------------------
\* The aggregation pass on buffers of in-window entries at three price
\* levels, and on the buffer of the two-venue scenario
\* ------------------------------------------------------------------------

\* Length of the buffer handed to the pass.
MaxDepthLen == 3

DepthEntries ==
  [price     : {196, 198, 208},
   quantity  : {1, 8},
   venue     : {"binance", "okx"},
   timestamp : {StartMs}]

\* Venue A (binance) holds (100, 5) and (101, 3), venue B (okx) holds
\* (99, 8); prices in half units.
ScenarioEntries ==
  <<[price |-> 200, quantity |-> 5, venue |-> "binance", timestamp |-> StartMs],
    [price |-> 202, quantity |-> 3, venue |-> "binance", timestamp |-> StartMs],
    [price |-> 198, quantity |-> 8, venue |-> "okx",     timestamp |-> StartMs]>>

InitDepth ==
  /\ selectedVenues = InitialVenues
  /\ timeRange \in {"1m", "1h"}
  /\ realTimeMode \in BOOLEAN
  /\ mounted = TRUE
  /\ status = "open"
  /\ error = Null
  /\ now = StartMs
  /\ view = InitialView(StartMs)
  /\ wsRefs = [v \in Venues |-> 0]
  /\ sockets = <<>>
  /\ dataBufferRef \in SeqsUpTo(DepthEntries, MaxDepthLen) \cup {ScenarioEntries}
  /\ inits = <<>>
  /\ interval = NoInterval
  /\ userActions = 0
  /\ lastPass = NoPass
  /\ showPressureZones = InitialShowPressureZones
  /\ closedEarly = {}

SpecDepth == InitDepth /\ [][NextPass]_vars

\* ------------------------------------------------------------------------
\* The aggregation pass on buffers of one venue whose in-window entries
\* fall in the price buckets 98, 99 (at two prices), 103 and 104, with
\* quantities far enough apart for a bucket to fall below half the
\* threshold: the inputs of one detectPressureZones invocation
\* ------------------------------------------------------------------------

\* Length of the buffer handed to the pass.
MaxZoneLen == 4

ZoneProbeEntries ==
  [price     : {196, 197, 198, 206, 208},
   quantity  : {1, 20},
   venue     : {"binance"},
   timestamp : {StartMs}]

InitZone ==
  /\ selectedVenues = InitialVenues
  /\ timeRange = InitialTimeRange
  /\ realTimeMode = InitialRealTimeMode
  /\ mounted = TRUE
  /\ status = "open"
  /\ error = Null
  /\ now = StartMs
  /\ view = InitialView(StartMs)
  /\ wsRefs = [v \in Venues |-> 0]
  /\ sockets = <<>>
  /\ dataBufferRef \in SeqsUpTo(ZoneProbeEntries, MaxZoneLen)
  /\ inits = <<>>
  /\ interval = NoInterval
  /\ userActions = 0
  /\ lastPass = NoPass
  /\ showPressureZones = InitialShowPressureZones
  /\ closedEarly = {}

SpecZone == InitZone /\ [][NextPass]_vars

\* ------------------------------------------------------------------------
\* A stream handle of a batched-mode session receiving well-formed and
\* malformed messages.  The specification follows the messages up to the
\* buffer; the pass over the buffer is left to the specifications above.
\* ------------------------------------------------------------------------

\* The snapshot the session was opened with.
StreamSnapshot(venue) ==
  DecodeSnapshot(venue, [ok |-> TRUE, ts |-> StartMs,
                         bids |-> <<Level(198, 3)>>, asks |-> <<Level(203, 1)>>],
                 StartMs)

InitStream ==
  /\ selectedVenues \in {<<v>> : v \in Venues}
  /\ timeRange = InitialTimeRange
  /\ realTimeMode = FALSE
  /\ mounted = TRUE
  /\ status = "open"
  /\ error = Null
  /\ now = StartMs
  /\ view = ComputeView(StreamSnapshot(selectedVenues[1]), StartMs, timeRange)
  /\ wsRefs = [v \in Venues |-> IF v = selectedVenues[1] THEN 1 ELSE 0]
  /\ sockets = <<[venue |-> selectedVenues[1], open |-> TRUE,
                  timeRange |-> timeRange, realTimeMode |-> FALSE]>>
  /\ dataBufferRef = <<>>
  /\ inits = <<>>
  /\ interval = IntervalEffect(FALSE, timeRange)
  /\ userActions = 0
  /\ lastPass = [entries |-> StreamSnapshot(selectedVenues[1]), now |-> StartMs,
                 timeRange |-> timeRange, realTimeMode |-> FALSE]
  /\ showPressureZones = InitialShowPressureZones
  /\ closedEarly = {}

NextStream ==
  \/ \E h \in 1..MaxSockets :
       \E msg \in StreamMessages(now) \cup MalformedMessages(now) : OnMessage(h, msg)
  \/ \E h \in 1..MaxSockets : WsError(h)
  \/ \E h \in 1..MaxSockets : WsClose(h)
  \/ Advance

SpecStream == InitStream /\ [][NextStream]_vars

\* ------------------------------------------------------------------------
\* A teardown that closes a stream which is still connecting.  Spec takes a
\* stream to be established as soon as it is created; here reconnect() has
\* just called close() on the stream of the first session before its
\* connection was established.  The browser then fails that connection
\* and fires the handle's error event, which the adapter has bound to
\* handleWebSocketError (ws.onerror = onError); a closed handle is handed
\* no message (its readyState is not OPEN).
\* ------------------------------------------------------------------------

\* ws.onerror of handle h, closed by close() while it was connecting:
\* handleWebSocketError.
LateError(h) ==
  /\ h \in closedEarly
  /\ closedEarly' = closedEarly \ {h}
  /\ SetStatus("error", SocketErrorMessage)
  /\ UNCHANGED <<selectedVenues, timeRange, realTimeMode, mounted,
                 showPressureZones, view, wsRefs, sockets,
                 dataBufferRef, inits, interval, now, userActions, lastPass>>

\* The state after reconnect(): the stream of the first session is closed,
\* status and error are reset and the new initialization awaits its
\* snapshot.
InitLate ==
  /\ selectedVenues = InitialVenues
  /\ timeRange = InitialTimeRange
  /\ realTimeMode \in BOOLEAN
  /\ mounted = TRUE
  /\ status = "connecting"
  /\ error = Null
  /\ now = StartMs
  /\ view = ComputeView(StreamSnapshot(selectedVenues[1]), StartMs, timeRange)
  /\ wsRefs = [v \in Venues |-> IF v = selectedVenues[1] THEN 1 ELSE 0]
  /\ sockets = <<[venue |-> selectedVenues[1], open |-> FALSE,
                  timeRange |-> timeRange, realTimeMode |-> realTimeMode]>>
  /\ dataBufferRef = <<>>
  /\ inits = <<NewInit(selectedVenues, timeRange, realTimeMode)>>
  /\ interval = IntervalEffect(realTimeMode, timeRange)
  /\ userActions = 1
  /\ lastPass = [entries |-> StreamSnapshot(selectedVenues[1]), now |-> StartMs,
                 timeRange |-> timeRange, realTimeMode |-> realTimeMode]
  /\ showPressureZones = InitialShowPressureZones
  /\ closedEarly = {1}

NextLate ==
  \/ \E h \in 1..MaxSockets : LateError(h)
  \/ \E i \in 1..MaxInits : \E resp \in SnapshotResponses(now) : FetchResolve(i, resp)
  \/ \E h \in 1..MaxSockets : \E msg \in StreamMessages(now) : WsMessage(h, msg)
  \/ \E h \in 1..MaxSockets : WsError(h)
  \/ \E h \in 1..MaxSockets : WsClose(h)
  \/ TimerTick
  \/ Advance

SpecLate == InitLate /\ [][NextLate]_vars

\* ------------------------------------------------------------------------
\* Claims
\* ------------------------------------------------------------------------

ViewEntries(v) ==
  Range(v.bids) \cup Range(v.asks)
    \cup UNION {Range(v.pressureZones[i].entries) : i \in DOMAIN v.pressureZones}

\* C1: the view published by a pass run at `now` with window windowMs holds
\* no entry with now - timestamp >= windowMs, in its bids, its asks or the
\* entries of its pressure zones; an entry exactly windowMs old is excluded.
C1_WindowExcludesOld ==
  \A e \in ViewEntries(view) :
    view.lastUpdated - e.timestamp < TimeRangeMs(lastPass.timeRange)

\* A pass has published a non-empty view from a buffer that held an entry
\* exactly windowMs old.
C1_Witness ==
  /\ lastPass # NoPass
  /\ view.lastUpdated = lastPass.now
  /\ ViewEntries(view) # {}
  /\ \E e \in Range(lastPass.entries) :
       lastPass.now - e.timestamp = TimeRangeMs(lastPass.timeRange)

\* --- steps of the controller, told apart by what they change -------------

\* The snapshot fetch of the i-th pending initialization resolves with
\* resp and the initialization runs to its end.
InitEnds(i, resp) ==
  /\ i \in DOMAIN inits
  /\ inits[i].k = Len(inits[i].venues)
  /\ FetchResolve(i, resp)

\* The combined snapshot that initialization ends with.
Combined(i, resp) ==
  inits[i].initialData \o DecodeSnapshot(inits[i].venues[inits[i].k], resp, now)

\* Handle h receives msg and hands a non-empty batch to
\* handleWebSocketMessage.
Arrives(h, msg) ==
  /\ h \in DOMAIN sockets
  /\ WsMessage(h, msg)
  /\ StreamDelivers(sockets[h].venue, msg)
  /\ Len(DecodeStream(sockets[h].venue, msg)) > 0

StoredHandles == {h \in DOMAIN sockets : wsRefs[sockets[h].venue] = h}

OpenHandles(socks) == {h \in DOMAIN socks : socks[h].open}

EmptyView(v) ==
  /\ v.bids = <<>> /\ v.asks = <<>> /\ v.pressureZones = <<>>
  /\ v.minPrice = 0 /\ v.maxPrice = 0 /\ v.maxQuantity = 0

\* C2: when the selected venue set changes while the status is `open`, the
\* status passes through `connecting` before it is `open` again, every
\* handle of the old session is closed, and the new session's handles are
\* fresh ones.
C2_VenueChangeReconnects ==
  [][ /\ (\E v \in SelectableVenues : ToggleVenue(v))
          /\ status = "open" /\ selectedVenues' # <<>>
        => /\ status' = "connecting"
           /\ OpenHandles(sockets') = {}
      /\ \A i \in DOMAIN inits : \A resp \in SnapshotResponses(now) :
           InitEnds(i, resp) /\ Len(Combined(i, resp)) > 0
             => \A n \in 1..Len(inits[i].venues) :
                  /\ sockets'[Len(sockets) + n].open
                  /\ wsRefs'[inits[i].venues[n]] = Len(sockets) + n
    ]_vars

\* C3: after a teardown (reconnect, venue-set change, unmount) no handle
\* made by or for the torn-down session is open, also when an
\* initialization of that session was still awaiting a snapshot; no handle
\* is opened after the unmount.
C3_TeardownLeavesNoHandle ==
  [][ /\ (Reconnect \/ Unmount \/ \E v \in SelectableVenues : ToggleVenue(v))
        => OpenHandles(sockets') = {}
      /\ \A i \in DOMAIN inits : \A resp \in SnapshotResponses(now) :
           InitEnds(i, resp) /\ (inits[i].stale \/ ~mounted)
             => OpenHandles(sockets') \subseteq OpenHandles(sockets)
    ]_vars

\* C4: reconnect(), from status `open` or `error`, closes every handle
\* stored in the handle table, sets error to null and status to
\* `connecting` and runs the initialization again; that initialization
\* ends with status `open` if its combined snapshot is non-empty and with
\* status `error` if it is empty (at once, when there is no venue to
\* fetch).
C4_Reconnect ==
  [][ /\ Reconnect /\ status \in {"open", "error"}
        => /\ \A h \in StoredHandles : ~sockets'[h].open
           /\ IF selectedVenues # <<>>
              THEN /\ status' = "connecting"
                   /\ error' = Null
                   /\ Len(inits') = Len(inits) + 1
                   /\ inits'[Len(inits')].venues = selectedVenues
                   /\ inits'[Len(inits')].k = 1
                   /\ inits'[Len(inits')].initialData = <<>>
              ELSE status' = "error" /\ error' # Null
      /\ \A i \in DOMAIN inits : \A resp \in SnapshotResponses(now) :
           InitEnds(i, resp) /\ mounted
             => status' = IF Len(Combined(i, resp)) > 0 THEN "open" ELSE "error"
    ]_vars

\* reconnect() was called with open handles in the table, and its
\* initialization has ended with status `open`.
C4_Witness ==
  /\ mounted
  /\ status = "open"
  /\ inits = <<>>
  /\ userActions = 1
  /\ selectedVenues = InitialVenues
  /\ timeRange = InitialTimeRange
  /\ realTimeMode = InitialRealTimeMode
  /\ error = Null
  /\ Len(sockets) = 2
  /\ ~sockets[1].open
  /\ sockets[2].open
  /\ wsRefs["binance"] = 2

\* C5: an initialization that finds the combined snapshot empty leaves the
\* controller with status `error`, a non-null error, no stream opened and
\* an empty view, also when an earlier session had published data.
C5_EmptySnapshotEndsInError ==
  [][ \A i \in DOMAIN inits : \A resp \in SnapshotResponses(now) :
        InitEnds(i, resp) /\ mounted /\ Len(Combined(i, resp)) = 0
          => /\ status' = "error"
             /\ error' # Null
             /\ sockets' = sockets
             /\ EmptyView(view')
    ]_vars

\* C6: a transport error reported by a handle sets a non-null error and
\* status `error`, and leaves the handle table, the buffer, the view and
\* every other handle as they were.
C6_StreamErrorKeepsSiblings ==
  [][ \A h \in DOMAIN sockets :
        WsError(h) /\ mounted
          => /\ status' = "error"
             /\ error' # Null
             /\ wsRefs' = wsRefs
             /\ dataBufferRef' = dataBufferRef
             /\ view' = view
             /\ \A g \in DOMAIN sockets \ {h} : sockets'[g] = sockets[g]
    ]_vars

\* A handle has reported an error while another handle is open.
C6_Witness ==
  /\ mounted
  /\ status = "error"
  /\ error = SocketErrorMessage
  /\ \E h, g \in DOMAIN sockets :
       /\ wsRefs[sockets[h].venue] = h /\ ~sockets[h].open
       /\ wsRefs[sockets[g].venue] = g /\ sockets[g].open

\* C7: while the configuration is real-time mode, every non-empty batch a
\* live stream delivers is at once followed by a pass over the buffer that
\* holds it, and does not stay in the buffer.
C7_RealTimeProcessesOnArrival ==
  [][ \A h \in DOMAIN sockets : \A msg \in StreamMessages(now) :
        Arrives(h, msg) /\ realTimeMode
          => /\ lastPass'.entries =
                  dataBufferRef \o DecodeStream(sockets[h].venue, msg)
             /\ lastPass'.now = now
             /\ dataBufferRef' = <<>>
    ]_vars

\* C8: while the configuration is batched mode, an arriving batch is only
\* appended to the buffer and no pass runs; a timer tick runs a pass over
\* the buffer and leaves it empty.
C8_BatchedProcessesOnTick ==
  [][ ~realTimeMode
        => /\ \A h \in DOMAIN sockets : \A msg \in StreamMessages(now) :
                Arrives(h, msg)
                  => /\ dataBufferRef' =
                          dataBufferRef \o DecodeStream(sockets[h].venue, msg)
                     /\ view' = view
                     /\ lastPass' = lastPass
           /\ TimerTick => dataBufferRef' = <<>>
    ]_vars

\* C10: no entry with quantity <= 0 comes out of an adapter, from a stream
\* message or from a snapshot; every entry of the buffer, of a pending
\* initialization, of a pass's input and of the view has quantity > 0.
C10_QuantitiesPositive ==
  \A e \in Range(dataBufferRef) \cup Range(lastPass.entries)
             \cup ViewEntries(view)
             \cup UNION {Range(inits[i].initialData) : i \in DOMAIN inits} :
    e.quantity > 0

\* --- the lists of a published view ----------------------------------------

Descending(s) == \A i \in 1..(Len(s) - 1) : s[i].price >= s[i + 1].price

NonDecreasing(s) == \A i \in 1..(Len(s) - 1) : s[i].price <= s[i + 1].price

\* The in-window entries of the latest pass that the pass classified as
\* bids (asks), in buffer order.
PassBids ==
  LET f == FilterEntries(lastPass.entries, lastPass.now, lastPass.timeRange)
  IN  SelectSeq(f, LAMBDA e : IsBid(e, f))

PassAsks ==
  LET f == FilterEntries(lastPass.entries, lastPass.now, lastPass.timeRange)
  IN  SelectSeq(f, LAMBDA e : ~IsBid(e, f))

AtPrice(s, p) == SelectSeq(s, LAMBDA e : e.price = p)

\* C11 (as claimed): in every published view the bids are sorted strictly
\* by price descending and the asks strictly by price ascending: adjacent
\* entries never have the same price.
C11_StrictlySorted ==
  /\ \A i \in 1..(Len(view.bids) - 1) : view.bids[i].price > view.bids[i + 1].price
  /\ \A i \in 1..(Len(view.asks) - 1) : view.asks[i].price < view.asks[i + 1].price

\* C11 (amended): in every published view the bids are sorted by price
\* descending and the asks by price ascending, without the lists being
\* strict: entries of the same price are all kept and stand in the order
\* they had in the buffer.
C11_SortedStable ==
  lastPass # NoPass =>
    /\ Descending(view.bids)
    /\ NonDecreasing(view.asks)
    /\ \A p \in {e.price : e \in Range(lastPass.entries)} :
         /\ AtPrice(view.bids, p) = AtPrice(PassBids, p)
         /\ AtPrice(view.asks, p) = AtPrice(PassAsks, p)

\* A pass has published two asks of the same price and different
\* quantities, in buffer order, after an ask of a lower price that came
\* later in the buffer.
C11_Witness ==
  /\ lastPass # NoPass
  /\ Len(view.asks) = 3
  /\ view.asks[2].price = view.asks[3].price
  /\ view.asks[2].quantity # view.asks[3].quantity
  /\ view.asks[1].price < view.asks[2].price
  /\ lastPass.entries[3] = view.asks[1]

AllZones(v) == {v.pressureZones[i] : i \in DOMAIN v.pressureZones}

\* C12: every pressure zone of a published view, as returned by
\* detectPressureZones, has pressureScore = totalVolume * (maxPrice -
\* minPrice + 1), totalVolume being the sum of the quantities of the zone's
\* entries.
C12_PressureScore ==
  \A z \in AllZones(view) :
    /\ z.pressureScore = z.totalVolume * (z.maxPrice - z.minPrice + 1)
    /\ z.pressureScore = SumQuantity(z.entries) * (z.maxPrice - z.minPrice + 1)

\* A pass has published a zone that spans more than one price bucket.
C12_Witness ==
  /\ lastPass # NoPass
  /\ \E z \in AllZones(view) :
       /\ z.maxPrice > z.minPrice
       /\ z.totalVolume > 1
       /\ z.pressureScore > z.totalVolume

\* C14: for the in-window buffer of venue A entries (100, 5), (101, 3) and
\* venue B entry (99, 8) and a window of 1h, the pass uses the threshold
\* 0.2 * 8 = 1.6 and publishes a zone of venue B with minPrice = maxPrice =
\* 99, totalVolume = 8 and pressureScore = 8.
C14_ScenarioZone ==
  lastPass.entries = ScenarioEntries /\ lastPass.timeRange = "1h"
    => /\ view.maxQuantity = 8
       /\ ZoneThreshold(view.maxQuantity) = 16
       /\ \E z \in AllZones(view) :
            /\ z.minPrice = 99 /\ z.maxPrice = 99
            /\ z.totalVolume = 8
            /\ z.pressureScore = 8
            /\ z.entries = <<ScenarioEntries[3]>>

\* The pass has run on the scenario's buffer with the 1h window and has
\* published a zone for each venue.
C14_Witness ==
  /\ lastPass.entries = ScenarioEntries
  /\ lastPass.timeRange = "1h"
  /\ Len(view.pressureZones) = 2
  /\ Len(view.bids) + Len(view.asks) = 3

\* C15: a pass whose set of in-window entries is empty (an empty buffer, or
\* a buffer whose entries are all outside the window) publishes an empty
\* view: no bids, asks or zones, and minPrice = maxPrice = maxQuantity = 0.
C15_EmptyWindowEmptyView ==
  [][ PassStep /\ FilterEntries(dataBufferRef, now, timeRange) = <<>>
        => EmptyView(view')
    ]_vars

BookEntries(v) == Range(v.bids) \cup Range(v.asks)

\* C16: the view holds a rolling window: an entry the session has delivered
\* and published stays in the bids or asks of the view published by a
\* later pass of the session (on a stream batch or on a timer tick) as
\* long as it is inside that pass's window.
C16_RollingWindow ==
  [][ (\/ TimerTick
       \/ \E h \in DOMAIN sockets : \E msg \in StreamMessages(now) : Arrives(h, msg))
      /\ mounted /\ lastPass' # lastPass
        => \A e \in BookEntries(view) :
             InWindow(e, lastPass'.now, lastPass'.timeRange)
               => e \in BookEntries(view')
    ]_vars

\* C17: the pressure-zone flag gates the detector: a pass that runs while
\* the flag is false does not run detectPressureZones and publishes a view
\* with no pressure zone.
C17_FlagGatesDetector ==
  [][ PassStep /\ ~showPressureZones /\ lastPass' # lastPass
        => view'.pressureZones = <<>>
    ]_vars

\* C18: a malformed stream message is dropped by the adapter: it hands no
\* entry to the controller, leaves status, error, buffer and view as they
\* were and leaves the handle open (so that later messages are delivered).
C18_MalformedDropped ==
  [][ \A h \in DOMAIN sockets : \A msg \in MalformedMessages(now) :
        OnMessage(h, msg)
          => /\ dataBufferRef' = dataBufferRef
             /\ view' = view
             /\ status' = status
             /\ error' = error
             /\ sockets' = sockets
    ]_vars

VenuesOf(entries) == {entries[i].venue : i \in DOMAIN entries}

\* C19: a venue whose snapshot fetch fails (or is empty) contributes no
\* entry and does not stop the initialization: when another selected venue
\* returned entries, the initialization runs the initial pass on them,
\* opens a fresh stream for every selected venue, the failed one included,
\* and sets status `open`.
C19_FailedVenueNotFatal ==
  [][ \A i \in DOMAIN inits : \A resp \in SnapshotResponses(now) :
        (/\ InitEnds(i, resp) /\ mounted
         /\ Len(Combined(i, resp)) > 0
         /\ VenuesOf(Combined(i, resp)) # Range(inits[i].venues))
          => /\ status' = "open"
             /\ lastPass'.entries = Combined(i, resp)
             /\ Len(sockets') = Len(sockets) + Len(inits[i].venues)
             /\ \A n \in 1..Len(inits[i].venues) :
                  /\ sockets'[Len(sockets) + n].open
                  /\ sockets'[Len(sockets) + n].venue = inits[i].venues[n]
                  /\ wsRefs'[inits[i].venues[n]] = Len(sockets) + n
    ]_vars

\* The session of binance and okx is open on the okx snapshot alone, the
\* binance fetch having given nothing, with a stream for each venue.
C19_Witness ==
  /\ mounted
  /\ status = "open"
  /\ selectedVenues = <<"binance", "okx">>
  /\ userActions = 1
  /\ inits = <<>>
  /\ lastPass.entries # <<>>
  /\ VenuesOf(lastPass.entries) = {"okx"}
  /\ \E e \in Range(lastPass.entries) : e.quantity = 3
  /\ Len(sockets) = 2
  /\ sockets[1].venue = "binance" /\ sockets[1].open /\ wsRefs["binance"] = 1
  /\ sockets[2].venue = "okx" /\ sockets[2].open /\ wsRefs["okx"] = 2

\* A snapshot fetch is started by the step: a new initialization, or a
\* pending one going on to its next venue.
FetchStarted ==
  \/ Len(inits') > Len(inits)
  \/ \E i \in DOMAIN inits : \E j \in DOMAIN inits' :
       /\ inits'[j].venues = inits[i].venues
       /\ inits'[j].k > inits[i].k

\* C20: there is no automatic retry: from status `error`, with no
\* initialization of the current session under way, a step that is neither
\* reconnect() nor a change of the selected venues leaves the status
\* `error`, starts no snapshot fetch and opens no handle.
C20_NoAutomaticRetry ==
  [][ (/\ status = "error" /\ mounted
       /\ \A i \in DOMAIN inits : inits[i].stale
       /\ ~Reconnect
       /\ ~(\E v \in SelectableVenues : ToggleVenue(v)))
        => /\ status' = "error"
           /\ ~FetchStarted
           /\ OpenHandles(sockets') \subseteq OpenHandles(sockets)
    ]_vars

\* --- the frame of a pass ------------------------------------------------------

\* C21: a call of processOrderbookData changes nothing but the published
\* view: the inbound buffer, the handle table, status and error are after
\* the call what they were before it, in either mode.
C21_PassChangesOnlyView ==
  [][ PassStep
        => /\ dataBufferRef' = dataBufferRef
           /\ sockets' = sockets
           /\ wsRefs' = wsRefs
           /\ status' = status
           /\ error' = error
    ]_vars

\* --- classification -----------------------------------------------------------

Count(s, e) == Cardinality({i \in DOMAIN s : s[i] = e})

\* The in-window entries of the latest pass, in buffer order.
PassWindow == FilterEntries(lastPass.entries, lastPass.now, lastPass.timeRange)

\* The in-window entries of the venue of e.
SameVenue(e) == SelectSeq(PassWindow, LAMBDA x : x.venue = e.venue)

\* C22: classification partitions the in-window entries: each of them
\* stands in exactly one of bids and asks, as often as in the buffer, and
\* nothing else stands there; it is a bid iff its price is strictly below
\* the mean price of the in-window entries of its venue, otherwise an ask.
C22_ClassificationPartitions ==
  lastPass # NoPass =>
    /\ Range(view.bids) \cup Range(view.asks) = Range(PassWindow)
    /\ \A e \in Range(PassWindow) :
         /\ Count(view.bids, e) + Count(view.asks, e) = Count(PassWindow, e)
         /\ IF e.price * Len(SameVenue(e)) < SumPrice(SameVenue(e))
            THEN Count(view.asks, e) = 0
            ELSE Count(view.bids, e) = 0

\* A pass has put one entry of a venue among the bids and the other among
\* the asks.
C22_Witness ==
  /\ lastPass # NoPass
  /\ Len(PassWindow) = 2
  /\ Len(view.bids) = 1
  /\ Len(view.asks) = 1
  /\ view.bids[1].venue = view.asks[1].venue

\* C23: an entry that is the only in-window entry of its venue is
\* classified against the mean price of the in-window entries of all
\* venues: it is a bid iff its price is below that global mean.
C23_SingleEntryGlobalMean ==
  lastPass # NoPass =>
    \A e \in Range(PassWindow) :
      Len(SameVenue(e)) = 1
        => (e \in Range(view.bids)
              <=> e.price * Len(PassWindow) < SumPrice(PassWindow))

\* --- the zones of a published view -----------------------------------------

\* The entries handed to the detectPressureZones invocation that produced
\* zone z: the in-window entries of the venue of the zone's entries.
ZoneInput(z) == SameVenue(z.entries[1])

\* The threshold of the invocations of the latest pass, in tenths.
PassThreshold == 2 * view.maxQuantity

\* The entries of the invocation that fall in bucket b, and their summed
\* quantity.
InBucket(entries, b) == SelectSeq(entries, LAMBDA e : Round(e.price) = b)

BucketVolume(entries, b) == SumQuantity(InBucket(entries, b))

\* C24: zones are contiguous runs: for a threshold above 0, every integer
\* bucket from minPrice to maxPrice of a published zone holds an entry of
\* the invocation and has a summed quantity of at least half the threshold
\* (a bucket without entries counts as 0 and ends the growth).
C24_ContiguousRun ==
  (lastPass # NoPass /\ PassThreshold > 0) =>
    \A z \in AllZones(view) : \A b \in z.minPrice..z.maxPrice :
      /\ InBucket(ZoneInput(z), b) # <<>>
      /\ 20 * BucketVolume(ZoneInput(z), b) >= PassThreshold

\* The buckets of the entries of zone z.
ZoneBuckets(z) == {Round(e.price) : e \in Range(z.entries)}

\* C25: the zones of one detectPressureZones invocation are
\* bucket-disjoint: no bucket, and so no entry and no quantity, belongs to
\* two zones of the same invocation.
C25_ZonesDisjoint ==
  lastPass # NoPass =>
    \A i, j \in DOMAIN view.pressureZones :
      (i # j /\ view.pressureZones[i].entries[1].venue
                  = view.pressureZones[j].entries[1].venue)
        => ZoneBuckets(view.pressureZones[i])
             \cap ZoneBuckets(view.pressureZones[j]) = {}

\* The seed bucket of zone z: the zone's entries start with the entries of
\* the bucket that seeded it.
Seed(z) == Round(z.entries[1].price)

\* The zones the latest pass published for venue v, the in-window entries
\* of v and their buckets.
ZonesOf(v) == {z \in AllZones(view) : z.entries[1].venue = v}

InputOf(v) == SelectSeq(PassWindow, LAMBDA x : x.venue = v)

BucketsOf(v) == {Round(e.price) : e \in Range(InputOf(v))}

\* C26: seeding rule.  For every venue of the pass: the seed bucket of
\* every zone has a summed quantity of at least the threshold; a bucket
\* that reaches the threshold seeds a zone iff no zone seeded at a lower
\* bucket holds it (buckets are visited in ascending order), so every such
\* bucket lies in a zone; a venue none of whose buckets reaches the
\* threshold has no zone.
C26_SeedingRule ==
  lastPass # NoPass =>
    \A v \in VenuesOf(PassWindow) :
      /\ \A z \in ZonesOf(v) :
           10 * BucketVolume(InputOf(v), Seed(z)) >= PassThreshold
      /\ \A b \in BucketsOf(v) :
           10 * BucketVolume(InputOf(v), b) >= PassThreshold
             => /\ (\E z \in ZonesOf(v) : Seed(z) = b)
                      <=> ~(\E y \in ZonesOf(v) : Seed(y) < b /\ b \in ZoneBuckets(y))
                /\ \E z \in ZonesOf(v) : b \in ZoneBuckets(z)
      /\ (\A b \in BucketsOf(v) : 10 * BucketVolume(InputOf(v), b) < PassThreshold)
           => ZonesOf(v) = {}

\* A pass has published one zone for a venue two of whose buckets reach the
\* threshold, the higher one claimed by the zone of the lower one, and no
\* zone for another venue, none of whose buckets reaches the threshold.
C26_Witness ==
  /\ lastPass # NoPass
  /\ \E v \in VenuesOf(PassWindow) :
       /\ Cardinality(ZonesOf(v)) = 1
       /\ \E b \in BucketsOf(v) :
            /\ 10 * BucketVolume(InputOf(v), b) >= PassThreshold
            /\ \A z \in ZonesOf(v) : Seed(z) < b
  /\ \E v \in VenuesOf(PassWindow) : ZonesOf(v) = {}

\* C27: the growth of a zone is bounded by the scan radius: with s the seed
\* bucket of a published zone, s - 5 <= minPrice <= s <= maxPrice <= s + 5,
\* so the zone spans at most 11 buckets.
C27_GrowthBounded ==
  lastPass # NoPass =>
    \A z \in AllZones(view) :
      /\ Seed(z) - 5 <= z.minPrice
      /\ z.minPrice <= Seed(z)
      /\ Seed(z) <= z.maxPrice
      /\ z.maxPrice <= Seed(z) + 5
      /\ z.maxPrice - z.minPrice + 1 <= 11

\* A pass has published a zone that reaches five buckets above its seed
\* while the invocation holds an entry six buckets above the seed, heavy
\* enough to be absorbed.
C27_Witness ==
  /\ lastPass # NoPass
  /\ \E z \in AllZones(view) :
       /\ z.maxPrice = Seed(z) + 5
       /\ 20 * BucketVolume(ZoneInput(z), Seed(z) + 6) >= PassThreshold

\* C28: every published zone has minPrice <= maxPrice, a totalVolume equal
\* to the sum of the quantities of its entries, and for entries exactly the
\* entries of its invocation whose rounded price lies in [minPrice,
\* maxPrice], each as often as in the invocation.
C28_ZoneContents ==
  lastPass # NoPass =>
    \A z \in AllZones(view) :
      /\ z.minPrice <= z.maxPrice
      /\ z.totalVolume = SumQuantity(z.entries)
      /\ \A e \in Range(ZoneInput(z)) \cup Range(z.entries) :
           Count(z.entries, e) =
             IF Round(e.price) \in z.minPrice..z.maxPrice
             THEN Count(ZoneInput(z), e) ELSE 0

\* A pass has published a zone that grew below its seed and stopped at a
\* bucket under half the threshold, leaving entries of the invocation out.
C28_Witness ==
  /\ lastPass # NoPass
  /\ \E z \in AllZones(view) :
       /\ z.minPrice < Seed(z)
       /\ Len(z.entries) < Len(ZoneInput(z))
       /\ \E e \in Range(ZoneInput(z)) :
            /\ Round(e.price) > z.maxPrice
            /\ Round(e.price) <= Seed(z) + 5
            /\ 20 * BucketVolume(ZoneInput(z), Round(e.price)) < PassThreshold

\* C29: the type of a published zone is `bid` iff the price of the first
\* entry of its seed bucket (the first of the zone's entries, and the first
\* entry of that bucket in the invocation) is strictly below the mean price
\* of all entries of the invocation, otherwise `ask`, whatever the pass made
\* of the zone's entries.
C29_ZoneType ==
  lastPass # NoPass =>
    \A z \in AllZones(view) :
      /\ z.entries[1] = InBucket(ZoneInput(z), Seed(z))[1]
      /\ z.type = IF z.entries[1].price * Len(ZoneInput(z)) < SumPrice(ZoneInput(z))
                  THEN "bid" ELSE "ask"

\* A pass has published a zone labelled `bid` that holds an entry the pass
\* classified as an ask, and whose seed bucket holds entries of two prices.
C29_Witness ==
  /\ lastPass # NoPass
  /\ \E z \in AllZones(view) :
       /\ z.type = "bid"
       /\ \E e \in Range(z.entries) : e \in Range(view.asks)
       /\ \E e \in Range(InBucket(ZoneInput(z), Seed(z))) : e.price # z.entries[1].price

\* The zones of the published list whose entries are of venue v.
ListedFor(v) ==
  SelectSeq(view.pressureZones, LAMBDA z : z.entries[1].venue = v)

\* C30: the published zone list holds, for every venue of the pass, the
\* zones detectPressureZones returns for that venue's in-window entries and
\* nothing else, ordered by pressureScore non-increasing; the entries of a
\* zone are all of one venue, zones of different venues being kept apart
\* even where their price ranges overlap.
C30_ZoneList ==
  lastPass # NoPass =>
    /\ \A i \in 1..(Len(view.pressureZones) - 1) :
         view.pressureZones[i].pressureScore >= view.pressureZones[i + 1].pressureScore
    /\ \A z \in AllZones(view) :
         /\ z.entries[1].venue \in VenuesOf(PassWindow)
         /\ \A e \in Range(z.entries) : e.venue = z.entries[1].venue
    /\ \A v \in VenuesOf(PassWindow) :
         LET found == DetectPressureZones(InputOf(v), PassThreshold).pressureZones
         IN  /\ Len(ListedFor(v)) = Len(found)
             /\ Range(ListedFor(v)) = Range(found)

\* A pass has published zones of two venues whose price ranges overlap,
\* the zone of the higher score first.
C30_Witness ==
  /\ lastPass # NoPass
  /\ \E i, j \in DOMAIN view.pressureZones :
       /\ i < j
       /\ view.pressureZones[i].entries[1].venue # view.pressureZones[j].entries[1].venue
       /\ view.pressureZones[i].pressureScore > view.pressureZones[j].pressureScore
       /\ view.pressureZones[i].minPrice <= view.pressureZones[j].maxPrice
       /\ view.pressureZones[j].minPrice <= view.pressureZones[i].maxPrice

\* --- extrema and threshold ----------------------------------------------------

\* The largest quantity among the in-window entries of venue v.
VenueMaxQuantity(v) == MaxOf({e.quantity : e \in Range(InputOf(v))})

\* C31: in a view published from a non-empty set of in-window entries,
\* minPrice and maxPrice are the least and the greatest price over bids and
\* asks together, maxQuantity is the greatest quantity of a single entry
\* over them, and the zones of every venue are those of the detector run on
\* the venue's entries with the threshold 0.2 * maxQuantity (2 * maxQuantity
\* in tenths).
C31_ExtremaAndThreshold ==
  (lastPass # NoPass /\ PassWindow # <<>>) =>
    /\ \E e \in BookEntries(view) : e.price = view.minPrice
    /\ \E e \in BookEntries(view) : e.price = view.maxPrice
    /\ \E e \in BookEntries(view) : e.quantity = view.maxQuantity
    /\ \A e \in BookEntries(view) :
         /\ view.minPrice <= e.price
         /\ e.price <= view.maxPrice
         /\ e.quantity <= view.maxQuantity
    /\ \A v \in VenuesOf(PassWindow) :
         Range(ListedFor(v))
           = Range(DetectPressureZones(InputOf(v), 2 * view.maxQuantity).pressureZones)

\* A pass over two venues has published no zone for the venue whose own
\* largest quantity is below the view's maxQuantity, although one of its
\* buckets reaches 0.2 times that venue's own largest quantity.
C31_Witness ==
  /\ lastPass # NoPass
  /\ view.minPrice < view.maxPrice
  /\ \E v \in VenuesOf(PassWindow) :
       /\ VenueMaxQuantity(v) < view.maxQuantity
       /\ ZonesOf(v) = {}
       /\ \E b \in BucketsOf(v) :
            10 * BucketVolume(InputOf(v), b) >= 2 * VenueMaxQuantity(v)
  /\ \E v \in VenuesOf(PassWindow) : ZonesOf(v) # {}

\* --- the session controller ----------------------------------------------------

\* C32: every pass filters with the configured window: a pass run on a
\* stream arrival or on a timer tick uses the window selected at that
\* moment, also after the selection changed while the streams stayed open.
C32_PassUsesCurrentWindow ==
  [][ ((\/ TimerTick
        \/ \E h \in DOMAIN sockets : \E msg \in StreamMessages(now) : Arrives(h, msg))
       /\ lastPass' # lastPass)
        => lastPass'.timeRange = timeRange
    ]_vars

\* The snapshot fetch of the i-th pending initialization resolves with
\* resp and the initialization goes on to the fetch of its next venue.
InitGoesOn(i, resp) ==
  /\ i \in DOMAIN inits
  /\ inits[i].k < Len(inits[i].venues)
  /\ FetchResolve(i, resp)

\* C33: order of an initialization.  The snapshots are fetched one venue at
\* a time in the order of the selection: when a fetch other than the last
\* resolves, the initialization only starts the fetch of the next venue
\* (no pass, no stream, no status change).  When the last fetch resolves
\* and the combined snapshot is non-empty, one pass runs on the combined
\* snapshot, one stream is opened per selected venue in the order of the
\* selection, and the status is `open`; when it is empty no pass runs and
\* no stream is opened.
C33_InitializationOrder ==
  [][ \A i \in DOMAIN inits : \A resp \in SnapshotResponses(now) :
        /\ InitGoesOn(i, resp)
             => /\ Len(inits') = Len(inits)
                /\ inits'[i].k = inits[i].k + 1
                /\ inits'[i].venues = inits[i].venues
                /\ inits'[i].initialData = Combined(i, resp)
                /\ lastPass' = lastPass /\ view' = view
                /\ sockets' = sockets /\ wsRefs' = wsRefs
                /\ status' = status
        /\ (InitEnds(i, resp) /\ mounted)
             => IF Len(Combined(i, resp)) > 0
                THEN /\ lastPass'.entries = Combined(i, resp)
                     /\ lastPass'.now = now
                     /\ view' = ComputeView(Combined(i, resp), now, inits[i].timeRange)
                     /\ Len(sockets') = Len(sockets) + Len(inits[i].venues)
                     /\ \A n \in 1..Len(inits[i].venues) :
                          /\ sockets'[Len(sockets) + n].open
                          /\ sockets'[Len(sockets) + n].venue = inits[i].venues[n]
                     /\ status' = "open"
                ELSE /\ lastPass' = lastPass /\ view' = view
                     /\ sockets' = sockets
                     /\ status' # "open"
    ]_vars

\* An initialization of binance and okx has fetched both snapshots, run its
\* pass on the entries of both venues and opened a stream for each.
C33_Witness ==
  /\ mounted
  /\ status = "open"
  /\ selectedVenues = <<"binance", "okx">>
  /\ inits = <<>>
  /\ VenuesOf(lastPass.entries) = {"binance", "okx"}
  /\ view = ComputeView(lastPass.entries, lastPass.now, lastPass.timeRange)
  /\ Len(sockets) >= 2
  /\ sockets[Len(sockets) - 1].venue = "binance" /\ sockets[Len(sockets) - 1].open
  /\ sockets[Len(sockets)].venue = "okx" /\ sockets[Len(sockets)].open

\* C34: status and error agree in every reachable state: status `open`
\* implies error = null and status `error` implies a non-null error.
C34_StatusErrorConsistent ==
  /\ status = "open" => error = Null
  /\ status = "error" => error # Null

\* C35: at every moment every open stream handle is the one stored for its
\* venue in the handle table, so that there is at most one open handle per
\* venue, also when initializations overlap.
C35_OneStoredHandlePerVenue ==
  /\ \A h \in OpenHandles(sockets) : wsRefs[sockets[h].venue] = h
  /\ \A h, g \in OpenHandles(sockets) : sockets[h].venue = sockets[g].venue => h = g

\* C36: every entry of a published view is of a selected venue: a pass over
\* the buffer, on a timer tick or on a stream arrival, publishes no entry
\* (in bids, asks or zones) of a venue that is not in the selection at that
\* moment, whatever an earlier session left in the buffer.
C36_ViewOfSelectedVenues ==
  [][ ((\/ TimerTick
        \/ \E h \in DOMAIN sockets : \E msg \in StreamMessages(now) : Arrives(h, msg))
       /\ mounted /\ lastPass' # lastPass)
        => \A e \in ViewEntries(view') : e.venue \in Range(selectedVenues')
    ]_vars

\* C37: while the status is `open` every selected venue has an open stream:
\* when the remote side closes the stored stream of a selected venue
\* (onclose) while the status is `open`, the status does not stay `open`.
C37_OpenMeansStreamsOpen ==
  [][ \A h \in DOMAIN sockets :
        (/\ WsClose(h) /\ mounted /\ status = "open"
         /\ wsRefs[sockets[h].venue] = h
         /\ sockets[h].venue \in Range(selectedVenues))
          => status' # "open"
    ]_vars

\* C38: the callbacks of a handle that a teardown has closed do not reach
\* the session started afterwards: an error reported by a handle that
\* reconnect() has closed changes neither status, error, the buffer nor
\* the published view.
C38_ClosedHandleIsSilent ==
  [][ \A h \in DOMAIN sockets :
        (LateError(h) /\ mounted)
          => /\ status' = status
             /\ error' = error
             /\ dataBufferRef' = dataBufferRef
             /\ view' = view
    ]_vars

====
